---- MODULE Spec2Model ----
(***************************************************************************)
(* InputTemplateProcessor.doProcess                                        *)
(* (packages/context-engine/src/processors/InputTemplate.ts).              *)
(*                                                                         *)
(* Objects live in three stores so that reference identity is visible:     *)
(*   heap   - Message objects, addressed by reference                      *)
(*   arrays - `messages` arrays, each a sequence of Message references     *)
(*   metas  - `metadata` objects, each a mapping from key to value         *)
(* A PipelineContext is a pair of references [messages, metadata].         *)
(*                                                                         *)
(* A string is a sequence of text chunks.  A template string is a sequence *)
(* of the segments the engine's delimiter pattern cuts it into.            *)
(***************************************************************************)
EXTENDS Integers, Sequences, FiniteSets, TLC

VARIABLES inputTemplate, context, clonedContext, heap, arrays, metas,
          pc, processedCount, compiler, lastUserIndex, errorLog, result,
          reapplied

vars == <<inputTemplate, context, clonedContext, heap, arrays, metas,
          pc, processedCount, compiler, lastUserIndex, errorLog, result,
          reapplied>>

\* ------------------------------------------------------------------ bounds
MaxLen == 2
MaxTplLen == 2

\* ------------------------------------------------------------- input sets
Roles == {"user", "assistant", "system"}

\* Segments a template string is made of.
Placeholders == {"{{text}}", "{{ text }}"}
Inert == {"Context: ", "{{ TEXT }}"}
EscapeDelims == {"<%- text %>"}
EvalBadSyntax == {"<%= text %>"}
EvalThrows == {"<% nope() %>"}
Segments == Placeholders \cup Inert \cup EscapeDelims
              \cup EvalBadSyntax \cup EvalThrows

SeqsUpTo(S, n) == UNION {[1..k -> S] : k \in 0..n}

Templates == SeqsUpTo(Segments, MaxTplLen)

\* config.inputTemplate is optional: present or undefined.
Undefined == [present |-> FALSE, value |-> <<>>]
Some(t) == [present |-> TRUE, value |-> t]

Str(s) == [kind |-> "string", val |-> s]
NonText == [kind |-> "object", val |-> <<>>]
Contents == {Str(<<"hi">>), Str(<<"<">>), NonText}

NullContext == [messages |-> 0, metadata |-> 0]
EmptyMeta == [k \in {} |-> 0]

\* --------------------------------------------------------------- helpers
RECURSIVE Flatten(_)
Flatten(ss) == IF ss = <<>> THEN <<>> ELSE Head(ss) \o Flatten(Tail(ss))

Put(m, k, v) == [x \in DOMAIN m \cup {k} |-> IF x = k THEN v ELSE m[x]]

\* ------------------------------------------------- the templating engine
\* template(str, { interpolate: /{{\s*(text)\s*}}/g }): the option replaces
\* the interpolate delimiter only; the engine's escape (<%- %>) and
\* evaluate (<% %>) delimiters stay in force.  Each segment becomes one
\* operation of the compiled function.
OpOf(seg) ==
  IF seg \in EscapeDelims THEN "escape"
  ELSE IF seg \in Placeholders THEN "interpolate"
  ELSE IF seg \in EvalBadSyntax \cup EvalThrows THEN "evaluate"
  ELSE "literal"

\* "<%= text %>" is cut by the evaluate delimiter into the statement
\* "= text", which is no JavaScript: building the function throws.
SyntaxOk(seg) == seg \notin EvalBadSyntax

Compile(tpl) ==
  [ok |-> \A i \in 1..Len(tpl) : SyntaxOk(tpl[i]),
   fn |-> [i \in 1..Len(tpl) |-> [op |-> OpOf(tpl[i]), src |-> tpl[i]]]]

\* String(value) as the generated code concatenates it.
ToStr(content) ==
  IF content.kind = "string" THEN content.val ELSE <<"[object Object]">>

EscapeChunk(c) ==
  IF c = "<" THEN <<"&", "lt;">>
  ELSE IF c = "&" THEN <<"&", "amp;">>
  ELSE <<c>>

Escape(s) == Flatten([i \in 1..Len(s) |-> EscapeChunk(s[i])])

\* compiler({ text }): an evaluate operation runs its statement, and
\* nope() is bound nowhere, so the call throws.
Invoke(fn, text) ==
  [ok |-> \A i \in 1..Len(fn) : fn[i].op # "evaluate",
   out |-> Flatten([i \in 1..Len(fn) |->
              IF fn[i].op = "interpolate" THEN ToStr(text)
              ELSE IF fn[i].op = "escape" THEN Escape(ToStr(text))
              ELSE IF fn[i].op = "literal" THEN <<fn[i].src>>
              ELSE <<>>])]

\* ---------------------------------------------------------- BaseProcessor
\* cloneContext: a new messages array holding the same Message references,
\* and a new metadata object holding the same entries.
cloneContext(ctx) ==
  [ctx |-> [messages |-> Len(arrays) + 1, metadata |-> Len(metas) + 1],
   arrays |-> Append(arrays, arrays[ctx.messages]),
   metas |-> Append(metas, metas[ctx.metadata])]

\* markAsExecuted: stamps the execution marker and hands the context back.
markAsExecuted(ctx) ==
  [ctx |-> ctx,
   metas |-> [metas EXCEPT ![ctx.metadata] = Put(@, "executed", TRUE)]]

\* ------------------------------------------------------------- doProcess
\* !this.config.inputTemplate : undefined and "" are both falsy.
IsConfigured(t) == t.present /\ t.value # <<>>

\* Where the disabled path goes: return this.markAsExecuted(clonedContext).
DisabledNextAlt == "UpdateMetadata"
DisabledNext == "Return"

\* The outer catch swallows the compile error; control falls to line 88.
OnCompileErrorAlt == "Thrown"
OnCompileError == "UpdateMetadata"

NotFound == 0

IsUserAlt(m) == m.role # "assistant"
IsUser(m) == m.role = "user"

RECURSIVE ScanUp(_, _)
ScanUp(ms, i) ==
  IF i > Len(ms) THEN NotFound
  ELSE IF IsUser(ms[i]) THEN i
  ELSE ScanUp(ms, i + 1)

RECURSIVE ScanDown(_, _)
ScanDown(ms, i) ==
  IF i < 1 THEN NotFound
  ELSE IF IsUser(ms[i]) THEN i
  ELSE ScanDown(ms, i - 1)

FirstUserIndex(ms) == ScanUp(ms, 1)
LastUserIndex(ms) == ScanDown(ms, Len(ms))

IsStringAlt(content) == TRUE
IsString(content) == content.kind = "string"

DiffersAlt(processedContent, originalContent) == TRUE
Differs(processedContent, originalContent) == processedContent # originalContent

\* The context the stage writes to.
TargetContextAlt == context
TargetContext == clonedContext

Messages(ctx) == [i \in 1..Len(arrays[ctx.messages]) |-> heap[arrays[ctx.messages][i]]]

Init ==
  \E t \in {Undefined} \cup {Some(x) : x \in Templates}, n \in 0..MaxLen :
    \E rs \in [1..n -> Roles], cs \in [1..n -> Contents],
       m \in {EmptyMeta, [k \in {"inputTemplateProcessed"} |-> 1]} :
      /\ inputTemplate = t
      /\ heap = [i \in 1..n |-> [id |-> i, role |-> rs[i], content |-> cs[i]]]
      /\ arrays = << [i \in 1..n |-> i] >>
      /\ metas = << m >>
      /\ context = [messages |-> 1, metadata |-> 1]
      /\ clonedContext = NullContext
      /\ pc = "Clone"
      /\ processedCount = 0
      /\ compiler = <<>>
      /\ lastUserIndex = NotFound
      /\ errorLog = "none"
      /\ result = NullContext
      /\ reapplied = FALSE

CloneContext ==
  /\ pc = "Clone"
  /\ LET c == cloneContext(context)
     IN /\ clonedContext' = c.ctx
        /\ arrays' = c.arrays
        /\ metas' = c.metas
  /\ pc' = "CheckTemplate"
  /\ UNCHANGED <<inputTemplate, context, heap, processedCount, compiler,
                 lastUserIndex, errorLog, result, reapplied>>

CheckTemplate ==
  /\ pc = "CheckTemplate"
  /\ pc' = IF IsConfigured(inputTemplate) THEN "Compile" ELSE DisabledNext
  /\ processedCount' = 0
  /\ UNCHANGED <<inputTemplate, context, clonedContext, heap, arrays, metas,
                 compiler, lastUserIndex, errorLog, result, reapplied>>

CompileTemplate ==
  /\ pc = "Compile"
  /\ LET c == Compile(inputTemplate.value)
     IN IF c.ok
        THEN /\ compiler' = c.fn
             /\ pc' = "Scan"
             /\ UNCHANGED errorLog
        ELSE /\ errorLog' = "compile"
             /\ pc' = OnCompileError
             /\ UNCHANGED compiler
  /\ UNCHANGED <<inputTemplate, context, clonedContext, heap, arrays, metas,
                 processedCount, lastUserIndex, result, reapplied>>

FindLastUser ==
  /\ pc = "Scan"
  /\ lastUserIndex' = LastUserIndex(Messages(clonedContext))
  /\ pc' = "Apply"
  /\ UNCHANGED <<inputTemplate, context, clonedContext, heap, arrays, metas,
                 processedCount, compiler, errorLog, result, reapplied>>

ApplyTemplate ==
  /\ pc = "Apply"
  /\ pc' = "UpdateMetadata"
  /\ IF lastUserIndex = NotFound
     THEN UNCHANGED <<heap, arrays, processedCount, errorLog>>
     ELSE LET message == heap[arrays[clonedContext.messages][lastUserIndex]]
              r == Invoke(compiler, message.content)
          IN IF ~IsString(message.content)
             THEN UNCHANGED <<heap, arrays, processedCount, errorLog>>
             ELSE IF ~r.ok
             THEN /\ errorLog' = "apply"
                  /\ UNCHANGED <<heap, arrays, processedCount>>
             ELSE IF Differs(Str(r.out), message.content)
             THEN /\ heap' = Append(heap, [message EXCEPT !.content = Str(r.out)])
                  /\ arrays' = [arrays EXCEPT
                                  ![TargetContext.messages][lastUserIndex] = Len(heap) + 1]
                  /\ processedCount' = processedCount + 1
                  /\ UNCHANGED errorLog
             ELSE UNCHANGED <<heap, arrays, processedCount, errorLog>>
  /\ UNCHANGED <<inputTemplate, context, clonedContext, metas, compiler,
                 lastUserIndex, result, reapplied>>

UpdateMetadata ==
  /\ pc = "UpdateMetadata"
  /\ metas' = [metas EXCEPT ![TargetContext.metadata] =
                 Put(@, "inputTemplateProcessed", processedCount)]
  /\ pc' = "Return"
  /\ UNCHANGED <<inputTemplate, context, clonedContext, heap, arrays,
                 processedCount, compiler, lastUserIndex, errorLog, result,
                 reapplied>>

ReturnExecuted ==
  /\ pc = "Return"
  /\ LET e == markAsExecuted(clonedContext)
     IN /\ result' = e.ctx
        /\ metas' = e.metas
  /\ pc' = "done"
  /\ UNCHANGED <<inputTemplate, context, clonedContext, heap, arrays,
                 processedCount, compiler, lastUserIndex, errorLog, reapplied>>

\* The pipeline hands the returned context to the stage a second time.
Reapply ==
  /\ pc = "done"
  /\ ~reapplied
  /\ reapplied' = TRUE
  /\ context' = result
  /\ clonedContext' = NullContext
  /\ result' = NullContext
  /\ pc' = "Clone"
  /\ processedCount' = 0
  /\ compiler' = <<>>
  /\ lastUserIndex' = NotFound
  /\ errorLog' = "none"
  /\ UNCHANGED <<inputTemplate, heap, arrays, metas>>

Next ==
  \/ CloneContext
  \/ CheckTemplate
  \/ CompileTemplate
  \/ FindLastUser
  \/ ApplyTemplate
  \/ UpdateMetadata
  \/ ReturnExecuted
  \/ Reapply

Spec == Init /\ [][Next]_vars

\* ================================================================ claims
\* Vocabulary of the statements below, defined apart from the operators
\* the actions use.
Done == pc = "done"
Configured == inputTemplate.present /\ inputTemplate.value # <<>>
InRefs == arrays[context.messages]
OutRefs == arrays[result.messages]
InMsg(i) == heap[InRefs[i]]
OutMsg(i) == heap[OutRefs[i]]
HasCount(ctx) == "inputTemplateProcessed" \in DOMAIN metas[ctx.metadata]
Count(ctx) == metas[ctx.metadata]["inputTemplateProcessed"]
UserAt(i) == InMsg(i).role = "user"
NoUser == \A i \in 1..Len(InRefs) : ~UserAt(i)
\* Index of the last message of the input with role user, 0 when none.
Target ==
  IF NoUser THEN 0
  ELSE CHOOSE i \in 1..Len(InRefs) :
         UserAt(i) /\ \A j \in (i + 1)..Len(InRefs) : ~UserAt(j)
TargetIsText == Target # 0 /\ InMsg(Target).content.kind = "string"
\* The template with every {{ text }} placeholder replaced by c and every
\* other segment kept as written.
Substitute(tpl, c) ==
  Flatten([i \in 1..Len(tpl) |->
             IF tpl[i] \in {"{{text}}", "{{ text }}"} THEN c ELSE <<tpl[i]>>])
NoPlaceholder(tpl) == \A i \in 1..Len(tpl) : tpl[i] \notin {"{{text}}", "{{ text }}"}
Replaced == Target # 0 /\ OutRefs[Target] # InRefs[Target]

\* C1 (as claimed): whenever the configured template compiles and the last
\* user message has text content c, the output holds at that index the
\* template with every {{ text }} replaced by c, and the recorded count is 1
\* when that differs from c.
C1_SubstitutionAsClaimed ==
  (Done /\ Configured /\ errorLog # "compile" /\ TargetIsText) =>
    LET c == InMsg(Target).content.val
        want == Substitute(inputTemplate.value, c)
    IN /\ OutMsg(Target).content = Str(want)
       /\ (want # c => HasCount(result) /\ Count(result) = 1)

\* C2: the output sequence has the input's length and order, and only the
\* slot of the last user message may hold a different message; every other
\* slot holds the very same message reference.
C2_SingleTargetScope ==
  Done =>
    /\ Len(OutRefs) = Len(InRefs)
    /\ \A i \in 1..Len(InRefs) :
         /\ (i # Target => OutRefs[i] = InRefs[i])
         /\ OutMsg(i).id = InMsg(i).id
         /\ OutMsg(i).role = InMsg(i).role

C2_Witness ==
  /\ Done
  /\ Len(InRefs) = 2
  /\ UserAt(1) /\ UserAt(2)
  /\ InMsg(1).content.kind = "string"
  /\ OutRefs[2] # InRefs[2]
  /\ OutRefs[1] = InRefs[1]

\* C3: no step of doProcess changes the caller's context: its messages
\* array, the Message objects that array refers to, and its metadata stay
\* as they were, on every path.
C3_OriginalImmutable ==
  [][pc # "done" =>
       /\ context' = context
       /\ arrays'[context.messages] = arrays[context.messages]
       /\ metas'[context.metadata] = metas[context.metadata]
       /\ \A i \in 1..Len(heap) : heap'[i] = heap[i]]_vars

C3_Witness ==
  /\ Done
  /\ Replaced
  /\ ~HasCount(context)
  /\ HasCount(result)
  /\ result.messages # context.messages
  /\ result.metadata # context.metadata

C5_FailureContainment ==
  /\ pc # "Thrown"
  /\ (Done /\ errorLog # "none") =>
       /\ OutRefs = InRefs
       /\ HasCount(result) /\ Count(result) = 0
       /\ result = clonedContext
       /\ "executed" \in DOMAIN metas[result.metadata]

C5_Witness ==
  /\ Done
  /\ errorLog = "apply"
  /\ TargetIsText
  /\ Count(result) = 0

\* C6: when the last user message's content is not a string, every output
\* slot holds the input message (so no earlier user message is rewritten
\* instead) and the recorded count is 0.
C6_NonTextSafety ==
  (Done /\ Configured /\ Target # 0 /\ ~TargetIsText) =>
    /\ OutRefs = InRefs
    /\ HasCount(result) /\ Count(result) = 0

C6_Witness ==
  /\ Done
  /\ Configured
  /\ errorLog = "none"
  /\ ~NoPlaceholder(inputTemplate.value)
  /\ Len(InRefs) = 2
  /\ UserAt(1) /\ InMsg(1).content.kind = "string"
  /\ UserAt(2) /\ InMsg(2).content.kind # "string"
  /\ Count(result) = 0

\* C7: with a template configured and no message of role user (an empty
\* sequence included), the recorded count is 0 and every output slot holds
\* the input message.
C7_NoUserMessage ==
  (Done /\ Configured /\ NoUser) =>
    /\ OutRefs = InRefs
    /\ HasCount(result) /\ Count(result) = 0

C7_Witness ==
  /\ Done
  /\ Configured
  /\ errorLog = "none"
  /\ Len(InRefs) = 2
  /\ InMsg(1).role = "system" /\ InMsg(2).role = "assistant"
  /\ InMsg(1).content.kind = "string"
  /\ Count(result) = 0

\* C8 (as claimed): for a configured template T without a {{ text }}
\* placeholder and a last user message of text content c # T, the first
\* application sets the content to T, and applying the stage again to the
\* result leaves the message in place and records a count of 0.
C8_IdempotenceAsClaimed ==
  (Done /\ Configured /\ NoPlaceholder(inputTemplate.value) /\ TargetIsText) =>
    LET c == InMsg(Target).content.val
    IN /\ (~reapplied /\ c # inputTemplate.value) =>
            OutMsg(Target).content = Str(inputTemplate.value)
       /\ reapplied =>
            /\ OutRefs[Target] = InRefs[Target]
            /\ HasCount(result) /\ Count(result) = 0

\* C9 (as claimed): every segment of a configured template other than the
\* {{ text }} placeholder is inert: it causes no compile-time or apply-time
\* failure and reaches the message content as written.
C9_OnlyTextAsClaimed ==
  Configured =>
    /\ errorLog = "none"
    /\ (Done /\ TargetIsText) =>
         OutMsg(Target).content.val =
           Substitute(inputTemplate.value, InMsg(Target).content.val)

\* C10: once the metadata step has run the recorded count is 0 or 1; it is
\* 1 exactly when the slot of the last user message holds a new Message,
\* and that Message equals the original in every field but content, whose
\* value differs from the original's; otherwise the slot holds the input
\* message itself.
C10_CountTracksChange ==
  (Done /\ Configured) =>
    /\ HasCount(result)
    /\ Count(result) \in {0, 1}
    /\ (Count(result) = 1) = Replaced
    /\ Replaced =>
         /\ OutMsg(Target) = [InMsg(Target) EXCEPT !.content = OutMsg(Target).content]
         /\ OutMsg(Target).content # InMsg(Target).content
    /\ \A i \in 1..Len(InRefs) :
         OutMsg(i).content = InMsg(i).content => OutRefs[i] = InRefs[i]

C10_Witness ==
  /\ Done
  /\ Configured
  /\ Count(result) = 1
  /\ Replaced
  /\ InMsg(Target).content = Str(<<"hi">>)
  /\ OutMsg(Target).content = Str(<<"Context: ", "hi">>)

====
